---- MODULE Spec2Model ----
(***************************************************************************)
(* ImageIP: signing of the images of a folder (signing_engine.py), the two *)
(* verification entry points (signature_verifier.py, signature_viewer.py)  *)
(* and the carrier-field codec between them (signature_utils.py).          *)
(*                                                                         *)
(* Texts are sequences of Unicode code points, byte strings are sequences  *)
(* of 0..255.  SHA-256 is taken as collision free: a digest is modelled by *)
(* the byte sequence that is hashed.  The GPG signer and verifier are      *)
(* modelled by the ledger of the signatures issued: a signature verifies   *)
(* for a message exactly when it was issued for that message.              *)
(***************************************************************************)
EXTENDS Integers, Sequences, FiniteSets, TLC

(***************************************************************************)
(* Bytes and texts                                                         *)
(***************************************************************************)

\* A failed call (a raised exception) and a returned value, in one shape.
Raise(msg) == [ok |-> FALSE, val |-> <<>>, err |-> msg]
Return(v) == [ok |-> TRUE, val |-> v, err |-> ""]

\* str.encode("utf-8") for one code point.
Utf8Char(c) ==
    IF c < 128 THEN <<c>>
    ELSE IF c < 2048 THEN <<192 + (c \div 64), 128 + (c % 64)>>
    ELSE IF c < 65536 THEN <<224 + (c \div 4096), 128 + ((c \div 64) % 64), 128 + (c % 64)>>
    ELSE <<240 + (c \div 262144), 128 + ((c \div 4096) % 64),
           128 + ((c \div 64) % 64), 128 + (c % 64)>>

RECURSIVE Utf8Encode(_)
Utf8Encode(text) ==
    IF text = <<>> THEN <<>> ELSE Utf8Char(Head(text)) \o Utf8Encode(Tail(text))

IsCont(b) == b >= 128 /\ b < 192

\* bytes.decode("utf-8"), strict: Raise on a malformed sequence.
RECURSIVE Utf8Decode(_)
Utf8Decode(bytes) ==
    IF bytes = <<>> THEN Return(<<>>)
    ELSE LET b == Head(bytes)
             n == Len(bytes)
             Rest(k, c) == LET r == Utf8Decode(SubSeq(bytes, k + 1, n))
                           IN  IF r.ok THEN Return(<<c>> \o r.val) ELSE r
             bad == Raise("UnicodeDecodeError")
         IN  IF b < 128 THEN Rest(1, b)
             ELSE IF b >= 194 /\ b < 224
                  THEN IF n >= 2 /\ IsCont(bytes[2])
                       THEN Rest(2, (b - 192) * 64 + (bytes[2] - 128))
                       ELSE bad
             ELSE IF b >= 224 /\ b < 240
                  THEN IF n >= 3 /\ IsCont(bytes[2]) /\ IsCont(bytes[3])
                          /\ (b = 224 => bytes[2] >= 160)
                          /\ (b = 237 => bytes[2] < 160)
                       THEN Rest(3, (b - 224) * 4096 + (bytes[2] - 128) * 64 + (bytes[3] - 128))
                       ELSE bad
             ELSE IF b >= 240 /\ b < 245
                  THEN IF n >= 4 /\ IsCont(bytes[2]) /\ IsCont(bytes[3]) /\ IsCont(bytes[4])
                          /\ (b = 240 => bytes[2] >= 144)
                          /\ (b = 244 => bytes[2] < 144)
                       THEN Rest(4, (b - 240) * 262144 + (bytes[2] - 128) * 4096
                                    + (bytes[3] - 128) * 64 + (bytes[4] - 128))
                       ELSE bad
             ELSE bad

\* The Base64 alphabet: sextet -> ASCII code, and back (64 for a byte outside it).
B64Char(s) ==
    IF s < 26 THEN 65 + s
    ELSE IF s < 52 THEN 97 + (s - 26)
    ELSE IF s < 62 THEN 48 + (s - 52)
    ELSE IF s = 62 THEN 43 ELSE 47

B64Sextet(ch) ==
    IF ch >= 65 /\ ch <= 90 THEN ch - 65
    ELSE IF ch >= 97 /\ ch <= 122 THEN ch - 97 + 26
    ELSE IF ch >= 48 /\ ch <= 57 THEN ch - 48 + 52
    ELSE IF ch = 43 THEN 62
    ELSE IF ch = 47 THEN 63
    ELSE 64

B64Pad == {61}

\* base64.b64encode(bytes).decode("ascii"): the text of the encoding.
RECURSIVE B64Encode(_)
B64Encode(bytes) ==
    LET n == Len(bytes)
        pad == CHOOSE p \in B64Pad : TRUE
    IN  IF n = 0 THEN <<>>
        ELSE IF n = 1
             THEN <<B64Char(bytes[1] \div 4), B64Char((bytes[1] % 4) * 16), pad, pad>>
        ELSE IF n = 2
             THEN <<B64Char(bytes[1] \div 4),
                    B64Char((bytes[1] % 4) * 16 + (bytes[2] \div 16)),
                    B64Char((bytes[2] % 16) * 4), pad>>
        ELSE <<B64Char(bytes[1] \div 4),
               B64Char((bytes[1] % 4) * 16 + (bytes[2] \div 16)),
               B64Char((bytes[2] % 16) * 4 + (bytes[3] \div 64)),
               B64Char(bytes[3] % 64)>> \o B64Encode(SubSeq(bytes, 4, n))

\* binascii.a2b_base64 in its default, non-strict mode, as base64.b64decode calls
\* it: bytes outside the alphabet are skipped, a completed pad sequence ends the
\* parse, and only an unfinished quad at the end of the input is an error.
RECURSIVE A2bBase64(_, _, _, _, _)
A2bBase64(data, quad_pos, leftchar, pads, out) ==
    IF data = <<>>
    THEN IF quad_pos = 0 THEN Return(out) ELSE Raise("binascii.Error")
    ELSE LET ch == Head(data)
             rest == Tail(data)
             s == B64Sextet(ch)
         IN  IF ch \in B64Pad
             THEN IF quad_pos >= 2 /\ quad_pos + pads + 1 >= 4
                  THEN Return(out)
                  ELSE A2bBase64(rest, quad_pos, leftchar,
                                 IF quad_pos >= 2 THEN pads + 1 ELSE pads, out)
             ELSE IF s >= 64 THEN A2bBase64(rest, quad_pos, leftchar, pads, out)
             ELSE IF quad_pos = 0 THEN A2bBase64(rest, 1, s, 0, out)
             ELSE IF quad_pos = 1
                  THEN A2bBase64(rest, 2, s % 16, 0, Append(out, leftchar * 4 + (s \div 16)))
             ELSE IF quad_pos = 2
                  THEN A2bBase64(rest, 3, s % 4, 0, Append(out, leftchar * 16 + (s \div 4)))
             ELSE A2bBase64(rest, 0, 0, 0, Append(out, leftchar * 64 + s))

\* base64.b64decode(text): the text must be ASCII, then a2b_base64.
B64Decode(text) ==
    IF \E i \in 1..Len(text) : text[i] >= 128
    THEN Raise("ValueError")
    ELSE A2bBase64(text, 0, 0, 0, <<>>)

(***************************************************************************)
(* The carrier field codec (piexif.helper.UserComment, signature_utils.py)  *)
(***************************************************************************)

\* The charset prefixes of an EXIF UserComment: "ASCII\0\0\0", "JIS\0\0\0\0\0",
\* "UNICODE\0" and the undefined prefix.
AsciiPrefix == <<65, 83, 67, 73, 73, 0, 0, 0>>
JisPrefix == <<74, 73, 83, 0, 0, 0, 0, 0>>
UnicodePrefix == <<85, 78, 73, 67, 79, 68, 69, 0>>
UndefinedPrefix == <<0, 0, 0, 0, 0, 0, 0, 0>>

\* The replacement character U+FFFD of a decode with errors='replace'.
Replacement == {65533}

\* UserComment.dump(text): the ASCII prefix, then text.encode("ascii",
\* errors="replace"), a "?" for every code point outside ASCII.
UserCommentDump(text) ==
    AsciiPrefix \o [i \in 1..Len(text) |-> IF text[i] < 128 THEN text[i] ELSE 63]

\* body.decode("utf_16_be", errors="replace"), code unit by code unit.
RECURSIVE Utf16beDecode(_)
Utf16beDecode(bytes) ==
    LET bad == CHOOSE r \in Replacement : TRUE
    IN  IF bytes = <<>> THEN <<>>
        ELSE IF Len(bytes) = 1 THEN <<bad>>
        ELSE LET u == bytes[1] * 256 + bytes[2]
             IN  <<IF u >= 55296 /\ u < 57344 THEN bad ELSE u>>
                 \o Utf16beDecode(SubSeq(bytes, 3, Len(bytes)))

\* UserComment.load(data): the first 8 bytes name the charset of the rest; a
\* field shorter than 8 bytes or with another prefix is a ValueError.  A JIS
\* body is decoded byte by byte (every byte outside ASCII to a code point
\* outside ASCII, which is all that the Base64 decoding that follows reads).
UserCommentLoad(data) ==
    LET bad == CHOOSE r \in Replacement : TRUE
        prefix == SubSeq(data, 1, 8)
        body == SubSeq(data, 9, Len(data))
        bytewise == [i \in 1..Len(body) |-> IF body[i] < 128 THEN body[i] ELSE bad]
    IN  IF Len(data) < 8 THEN Raise("ValueError: not enough data to decode UserComment")
        ELSE IF prefix = UndefinedPrefix
             THEN Raise("ValueError: prefix is UNDEFINED, unable to decode UserComment")
        ELSE IF prefix = AsciiPrefix THEN Return(bytewise)
        ELSE IF prefix = JisPrefix THEN Return(bytewise)
        ELSE IF prefix = UnicodePrefix THEN Return(Utf16beDecode(body))
        ELSE Raise("ValueError: unable to determine appropriate codec")

\* The values extract_signature_from_exif may be handed: a byte string, a tuple
\* of byte strings, a tuple of integers (what piexif returns for a BYTE field),
\* a text, None.
BytesValue(b) == [kind |-> "bytes", items |-> <<b>>]
TupleValue(chunks) == [kind |-> "tuple", items |-> chunks]
IntTupleValue(ints) == [kind |-> "inttuple", items |-> <<ints>>]
StrValue(t) == [kind |-> "str", items |-> <<t>>]
NoneValue == [kind |-> "none", items |-> <<>>]

\* signature_utils.py:30-35: a tuple is replaced by its first element.
TupleFirst(exif_data) ==
    IF exif_data.kind = "tuple"
    THEN IF Len(exif_data.items) > 0
         THEN Return(BytesValue(exif_data.items[1]))
         ELSE Raise("ValueError: Empty tuple provided as EXIF data")
    ELSE IF exif_data.kind = "inttuple"
    THEN IF Len(exif_data.items[1]) > 0
         THEN Return([kind |-> "int", items |-> <<>>])
         ELSE Raise("ValueError: Empty tuple provided as EXIF data")
    ELSE Return(exif_data)

\* A variant that cuts eight characters whether or not they are the header.
StripHeaderAlways(user_comment) == SubSeq(user_comment, 9, Len(user_comment))

\* signature_utils.py:44-47: the text header "ASCII\0\0\0" is dropped from the
\* loaded comment when the comment starts with it.
StripHeader(user_comment) ==
    IF Len(user_comment) >= 8 /\ SubSeq(user_comment, 1, 8) = AsciiPrefix
    THEN SubSeq(user_comment, 9, Len(user_comment))
    ELSE user_comment

\* A variant that swallows the failure and carries on with an empty text.
DecodeBase64SignatureQuiet(user_comment) ==
    LET b == B64Decode(user_comment)
        t == IF b.ok THEN Utf8Decode(b.val) ELSE b
    IN  IF t.ok THEN t ELSE Return(<<>>)

\* signature_utils.py:49-53: Base64, then UTF-8; any failure is a ValueError.
DecodeBase64Signature(user_comment) ==
    LET b == B64Decode(user_comment)
        t == IF b.ok THEN Utf8Decode(b.val) ELSE b
    IN  IF t.ok THEN t ELSE Raise("ValueError: Failed to decode Base64 signature")

\* extract_signature_from_exif(exif_data): the signature text, or the ValueError.
extract_signature_from_exif(exif_data) ==
    LET first == TupleFirst(exif_data)
    IN  IF ~first.ok THEN Raise(first.err)
        ELSE IF first.val.kind # "bytes" THEN Raise("ValueError: Expected bytes or tuple")
        ELSE LET loaded == UserCommentLoad(first.val.items[1])
             IN  IF ~loaded.ok THEN loaded
                 ELSE DecodeBase64Signature(StripHeader(loaded.val))

\* signing_engine.py:159: the Base64 text of the signature.
SignatureB64(signature_str) == B64Encode(Utf8Encode(signature_str))

\* signing_engine.py:184: the carrier field written for a signature.
CarrierField(signature_str) == UserCommentDump(SignatureB64(signature_str))

(***************************************************************************)
(* Attribution text and fingerprint (utils.py, crypto_fingerprint.py)       *)
(***************************************************************************)

\* The code points str.split() and str.strip() treat as whitespace.
IsSpace(c) ==
    \/ c \in 9..13 \/ c \in 28..32 \/ c \in {133, 160, 5760}
    \/ c \in 8192..8202 \/ c \in {8232, 8233, 8239, 8287, 12288}

RECURSIVE LStrip(_)
LStrip(text) ==
    IF text # <<>> /\ IsSpace(Head(text)) THEN LStrip(Tail(text)) ELSE text

RECURSIVE RStrip(_)
RStrip(text) ==
    IF text # <<>> /\ IsSpace(text[Len(text)])
    THEN RStrip(SubSeq(text, 1, Len(text) - 1)) ELSE text

\* str.strip()
Strip(text) == RStrip(LStrip(text))

\* Every run of whitespace of a stripped text becomes one space.
RECURSIVE CollapseRuns(_)
CollapseRuns(text) ==
    IF text = <<>> THEN <<>>
    ELSE IF IsSpace(Head(text)) THEN <<32>> \o CollapseRuns(LStrip(text))
    ELSE <<Head(text)>> \o CollapseRuns(Tail(text))

\* utils.normalise_strings is imported by signing_engine.py and
\* signature_utils.py and defined in no source file: whitespace runs are
\* collapsed and the ends trimmed, as the data model of the specification says.
normalise_strings(text) == CollapseRuns(Strip(text))

\* The decimal digits of a natural number, as an f-string formats an int.
RECURSIVE Decimal(_)
Decimal(n) ==
    IF n < 10 THEN <<48 + n>> ELSE Decimal(n \div 10) \o <<48 + (n % 10)>>

\* A variant of the attribution string that leaves the license out.
get_attribution_bytes_unlicensed(author, copyright_holder, license, year) ==
    Utf8Encode(author \o <<32, 169>> \o Decimal(year) \o <<32>>
               \o copyright_holder \o <<46>>)

\* A variant of the attribution string with the copyright holder first and
\* the author after the year.
get_attribution_bytes_swapped(author, copyright_holder, license, year) ==
    Utf8Encode(copyright_holder \o <<32, 169>> \o Decimal(year) \o <<32>>
               \o author \o <<46, 32>> \o license)

\* get_attribution_bytes: f"{author} ©{year} {copyright_holder}. {license}" in UTF-8.
get_attribution_bytes(author, copyright_holder, license, year) ==
    Utf8Encode(author \o <<32, 169>> \o Decimal(year) \o <<32>>
               \o copyright_holder \o <<46, 32>> \o license)

\* hashlib.sha256(combined).hexdigest(), collision free: the digest stands for
\* the bytes hashed.
Sha256(combined) == [sha256 |-> combined]

\* str.encode("utf-16le") and bytes.decode("utf-16le", "ignore").
RECURSIVE Utf16leEncode(_)
Utf16leEncode(text) ==
    IF text = <<>> THEN <<>>
    ELSE LET c == Head(text)
             hi == 55296 + ((c - 65536) \div 1024)
             lo == 56320 + ((c - 65536) % 1024)
         IN  (IF c < 65536 THEN <<c % 256, c \div 256>>
              ELSE <<hi % 256, hi \div 256, lo % 256, lo \div 256>>)
             \o Utf16leEncode(Tail(text))

RECURSIVE Utf16leDecodeIgnore(_)
Utf16leDecodeIgnore(bytes) ==
    IF Len(bytes) < 2 THEN <<>>
    ELSE LET u == bytes[1] + 256 * bytes[2]
             v == IF Len(bytes) >= 4 THEN bytes[3] + 256 * bytes[4] ELSE 0
         IN  IF u >= 55296 /\ u < 56320
             THEN IF v >= 56320 /\ v < 57344
                  THEN <<65536 + (u - 55296) * 1024 + (v - 56320)>>
                       \o Utf16leDecodeIgnore(SubSeq(bytes, 5, Len(bytes)))
                  ELSE Utf16leDecodeIgnore(SubSeq(bytes, 3, Len(bytes)))
             ELSE IF u >= 56320 /\ u < 57344
                  THEN Utf16leDecodeIgnore(SubSeq(bytes, 3, Len(bytes)))
             ELSE <<u>> \o Utf16leDecodeIgnore(SubSeq(bytes, 3, Len(bytes)))

\* bytes.decode("utf-8", "ignore"): the bytes that start no valid sequence are dropped.
RECURSIVE Utf8DecodeIgnore(_)
Utf8DecodeIgnore(bytes) ==
    IF bytes = <<>> THEN <<>>
    ELSE LET n == Len(bytes)
             ks == {k \in 1..(IF n < 4 THEN n ELSE 4) : Utf8Decode(SubSeq(bytes, 1, k)).ok}
         IN  IF ks = {} THEN Utf8DecodeIgnore(Tail(bytes))
             ELSE LET k == CHOOSE j \in ks : \A i \in ks : j <= i
                  IN  Utf8Decode(SubSeq(bytes, 1, k)).val
                      \o Utf8DecodeIgnore(SubSeq(bytes, k + 1, n))

(***************************************************************************)
(* Profiles, files and the folder                                          *)
(***************************************************************************)

\* Bounds of the model.
MaxSigns == 1
MaxEdits == 1

\* The wall clock, in years, and the years a file may carry when the run starts.
ClockYears == 2024..2025
FileYears == {2023, 2024}

\* Texts of the model: "A", "B"; "H", "G"; "CC BY", "X".
AuthorTexts == {<<65>>, <<66>>}
HolderTexts == {<<72>>, <<71>>}
LicenseTexts == {<<67, 67, 32, 66, 89>>, <<88>>}

\* copyright_types.LICENSE_URLS, over the licences of the model: "CC BY" has a
\* URL, a custom licence has none.
HasLicenseUrl(license) == license = <<67, 67, 32, 66, 89>>

\* The key the signing loop signs with (signing_engine.py:97).
gpg_key == "4D08AD65CF951188848876CCD45D139CF7A5C3A8"

\* The profiles of the GUI: one base profile and the ones that differ from it
\* in one field.  NoProfile is the empty dict gui.py starts with.
BaseProfile == [author |-> <<65>>, copyright |-> <<72>>,
                license |-> <<67, 67, 32, 66, 89>>, gpg_key |-> "profile-key"]
Profiles ==
    {[BaseProfile EXCEPT !.author = a] : a \in AuthorTexts}
    \cup {[BaseProfile EXCEPT !.copyright = h] : h \in HolderTexts}
    \cup {[BaseProfile EXCEPT !.license = l] : l \in LicenseTexts}
NoProfile == [author |-> <<>>, copyright |-> <<>>, license |-> <<>>, gpg_key |-> ""]

\* The file names of the folder: a JPEG, a PNG and the JPEG the PNG converts to.
Names == {"a.jpg", "b.png", "b_converted.jpg"}
JpegNames == {"a.jpg", "b_converted.jpg"}
ConvertedName(n) == IF n = "b.png" THEN "b_converted.jpg" ELSE n \o "_converted.jpg"

\* A file: the image (mode, samples), the EXIF fields the program reads and
\* writes (an absent field and an empty one read the same), the timestamps
\* os.stat reports and the filesystem label.  serial and touched are history:
\* the serial of the signature the last successful signing embedded (-1: none)
\* and whether anything changed the file since.  readable is whether
\* Image.open can decode the file.
NoFile ==
    [exists |-> FALSE, mode |-> "RGB", ptrans |-> FALSE, rgb |-> <<>>, alpha |-> <<>>,
     date |-> 0, artist |-> <<>>, copyright |-> <<>>, xpauthor |-> <<>>,
     xpkeywords |-> <<>>, xpcomment |-> FALSE, usercomment |-> <<>>,
     mtime |-> 0, ctime |-> 0, label |-> <<>>, serial |-> -1, touched |-> FALSE,
     readable |-> TRUE]

\* has_transparency(image)
has_transparency(mode, ptrans) ==
    mode \in {"RGBA", "LA"} \/ (mode = "P" /\ ptrans)

\* extract_creation_year(image_path): the year of the EXIF date when the file
\* has one, else the earlier of st_ctime and st_mtime.
extract_creation_year(file) ==
    IF file.date # 0 THEN file.date
    ELSE IF file.ctime < file.mtime THEN file.ctime ELSE file.mtime

\* Image.save(path, "JPEG", quality=100, subsampling=0) and Image.open of the
\* result: JPEG is lossy, a sample comes back quantised.
JpegSamples(rgb) == [i \in 1..Len(rgb) |-> rgb[i] - (rgb[i] % 2)]

\* image.convert("RGB").save(path, "JPEG", ...): the file is rewritten with the
\* re-encoded samples and without any EXIF; its timestamps are the time of
\* the write (POSIX: st_ctime is the time of the last change).
SaveAsJpeg(file, now) ==
    [NoFile EXCEPT !.exists = TRUE, !.rgb = JpegSamples(file.rgb),
                   !.mtime = now, !.ctime = now, !.label = file.label]

\* crypto_fingerprint.py:73: the layout compute_visual_hash converts to.
CanonicalMode(mode) == IF mode \in {"RGBA", "LA"} THEN "RGBA" ELSE "RGB"

\* img.convert(mode).tobytes() of compute_visual_hash: RGBA for an image of
\* mode RGBA or LA, RGB otherwise.
PixelData(file) ==
    IF CanonicalMode(file.mode) = "RGBA"
    THEN [i \in 1..(4 * Len(file.alpha)) |->
            IF i % 4 = 0 THEN file.alpha[i \div 4] ELSE file.rgb[3 * ((i - 1) \div 4) + (i % 4)]]
    ELSE file.rgb

\* compute_visual_hash(image_path, attribution)
compute_visual_hash(file, attribution) == Sha256(PixelData(file) \o attribution)

\* A variant that serialises the fields of the profile as they are.
compute_image_fingerprint_raw(file, profile) ==
    compute_visual_hash(file,
        get_attribution_bytes(profile.author, profile.copyright, profile.license,
                              extract_creation_year(file)))

\* compute_image_fingerprint(image_path, profile)
compute_image_fingerprint(file, profile) ==
    compute_visual_hash(file,
        get_attribution_bytes(normalise_strings(profile.author),
                              normalise_strings(profile.copyright),
                              normalise_strings(profile.license),
                              extract_creation_year(file)))

(***************************************************************************)
(* The signer and the verifier (GPGManager)                                *)
(***************************************************************************)

\* The text of the serial-th signature the signer issues: "-" and letters, of
\* length 2, 3 or 4, so that every Base64 padding occurs.
SignatureText(serial) == [i \in 1..(2 + (serial % 3)) |-> IF i = 1 THEN 45 ELSE 65 + serial]

\* GPGManager.verify_data(data, signature_file): valid when the file holds a
\* signature that was issued for exactly this data.
verify_data(issued, data, signature_bytes) ==
    \E e \in issued : Utf8Encode(e.sig) = signature_bytes /\ e.data = data

(***************************************************************************)
(* State                                                                   *)
(***************************************************************************)

VARIABLES
    folder,     \* the files of the folder, by name
    clock,      \* the current year
    issued,     \* the signatures the signer has issued
    signs,      \* how many times the folder was signed
    edits,      \* how many times a signed file was changed from outside
    last,       \* what the last signing or verification call did and returned
    codec,      \* the carrier field under test and what decoding it gave
    gui,        \* the callbacks of the GUI in progress, the calls into the
                \* signer and verifier in progress, the temporary files on disk
    store       \* profiles/profiles.json, and what the last edit of it saved

vars == <<folder, clock, issued, signs, edits, last, codec, gui, store>>

\* No call yet.  path is the branch a verification took, called whether it
\* invoked the verifier; sig, pixels, author, holder, license and year are what
\* it verified and data the fingerprint it handed to the verifier; count is
\* what a signing reported, listed the JPEGs its signing loop went over and
\* failing the ones for which the signer raised.
NoOutcome ==
    [op |-> "none", name |-> "", ret |-> "", err |-> "", path |-> "", called |-> FALSE,
     sig |-> <<>>, pixels |-> <<>>, author |-> <<>>, holder |-> <<>>, license |-> <<>>,
     year |-> 0, profile |-> NoProfile, count |-> 0, listed |-> {}, failing |-> {},
     data |-> Sha256(<<>>)]

NoCodec == [phase |-> "idle", form |-> "", text |-> <<>>, exif_data |-> NoneValue,
            result |-> Raise("")]

\* The main loop of the GUI is idle: no callback has been entered, no call
\* into gpg_manager is in progress, no temporary file is on disk, nothing
\* was clicked or run.
NoGui == [stack |-> <<>>, calls |-> {}, tmp_files |-> {}, clicks |-> 0]

\* profiles.json as ensure_profile_storage creates it: the empty map (a key
\* that is not in the map has the entry NoEntry).  op and saved are history:
\* the last operation on the map and the profile its form saved.
NoEntry == [name |-> "", author |-> <<>>]
ProfileKeys == {"P", "Q", "R"}
NoStore == [profiles |-> [k \in ProfileKeys |-> NoEntry], op |-> "", saved |-> NoEntry]

(***************************************************************************)
(* Signing (signing_engine.sign_images_in_folder)                          *)
(***************************************************************************)

\* tag_filesystem_metadata(src_path, label): the label is set as an extended
\* attribute of the file, which changes st_ctime.
tag_filesystem_metadata(file, label, now) ==
    [file EXCEPT !.label = label, !.ctime = now]

\* signing_engine.py:100-122, one pass of the conversion loop over file n: a
\* transparent image is labelled and left, any other is converted to a new
\* JPEG; a file that Image.open cannot decode is reported and passed over.
ConvertPass(fold, n, profile, now) ==
    LET file == fold[n]
        year == extract_creation_year(file)
        label == <<169, 32>> \o Decimal(year) \o <<32>> \o profile.copyright
        target == ConvertedName(n)
    IN  IF n \in JpegNames \/ ~file.exists THEN fold
        ELSE IF ~file.readable THEN fold
        ELSE IF has_transparency(file.mode, file.ptrans)
             THEN [fold EXCEPT ![n] = tag_filesystem_metadata(file, label, now)]
             ELSE [fold EXCEPT ![target] =
                       [SaveAsJpeg(file, now) EXCEPT !.label = fold[target].label]]

\* A variant that also writes the pixels once more, brighter, with the fields.
EmbedFieldsRecoded(saved, author, copyright_holder, license, year, signature_b64, now, serial) ==
    [saved EXCEPT !.rgb = [i \in 1..Len(@) |-> (@[i] + 2) % 256],
                  !.artist = Utf8Encode(author),
                  !.copyright = Utf8Encode(<<169>> \o Decimal(year) \o <<32>>
                                           \o copyright_holder \o <<46>>),
                  !.xpauthor = Utf16leEncode(copyright_holder),
                  !.xpkeywords = Utf16leEncode(license),
                  !.xpcomment = HasLicenseUrl(license),
                  !.usercomment = UserCommentDump(signature_b64),
                  !.mtime = now, !.ctime = now,
                  !.serial = serial, !.touched = FALSE]

\* signing_engine.py:171-189: the attribution fields and the carrier field are
\* written into the EXIF of the saved file.
EmbedFields(saved, author, copyright_holder, license, year, signature_b64, now, serial) ==
    [saved EXCEPT !.artist = Utf8Encode(author),
                  !.copyright = Utf8Encode(<<169>> \o Decimal(year) \o <<32>>
                                           \o copyright_holder \o <<46>>),
                  !.xpauthor = Utf16leEncode(copyright_holder),
                  !.xpkeywords = Utf16leEncode(license),
                  !.xpcomment = HasLicenseUrl(license),
                  !.usercomment = UserCommentDump(signature_b64),
                  !.mtime = now, !.ctime = now,
                  !.serial = serial, !.touched = FALSE]

\* signing_engine.py:131-137: the year is read from the file as it is before
\* the file is saved again.
SigningYear(file) == extract_creation_year(file)

\* signing_engine.py:127-193, one pass of the signing loop: the file after
\* the pass and the signature issued in it, if any.  signer_ok is whether
\* sign_data returns a signature (it raises otherwise).  The record of an
\* issued signature keeps, as history, what was fingerprinted for it and when.
\* A file that Image.open cannot decode is left alone (line 140 raises).
SignPass(file, profile, now, signer_ok, serial) ==
    LET year == SigningYear(file)
        author == normalise_strings(profile.author)
        copyright_holder == normalise_strings(profile.copyright)
        license == normalise_strings(profile.license)
        attribution == get_attribution_bytes(author, copyright_holder, license, year)
        saved == SaveAsJpeg(file, now)
        sha256 == compute_visual_hash(saved, attribution)
        signature_str == Strip(SignatureText(serial))
        signature_b64 == SignatureB64(signature_str)
        decoded == B64Decode(signature_b64)
        reconstructed == IF decoded.ok THEN Utf8Decode(decoded.val) ELSE decoded
        issue == [sig |-> signature_str, data |-> sha256, keyid |-> gpg_key,
                  serial |-> serial, profile |-> profile, saved |-> now,
                  pixels |-> PixelData(saved), author |-> author,
                  holder |-> copyright_holder, license |-> license, year |-> year]
    IN  IF ~file.readable THEN [file |-> file, issue |-> {}]
        ELSE IF ~signer_ok THEN [file |-> saved, issue |-> {}]
        ELSE IF ~(reconstructed.ok /\ reconstructed.val = signature_str)
             THEN [file |-> saved, issue |-> {issue}]
        ELSE [file |-> EmbedFields(saved, author, copyright_holder, license, year,
                                   signature_b64, now, serial),
              issue |-> {issue}]

\* The place of a JPEG in the listing of the folder.
Rank(n) == IF n = "a.jpg" THEN 0 ELSE 1

\* A variant of the signing loop that a failure ends: the files up to the
\* first one for which the signer raises.
SigningLoopUntilFailure(jpeg_files, failing) ==
    {n \in jpeg_files : \A m \in failing : Rank(n) <= Rank(m)}

\* signing_engine.py:127-129 and 192-193: each pass of the signing loop runs in
\* a try of its own, so the loop reaches every JPEG listed whichever fail.
SigningLoop(jpeg_files, failing) == jpeg_files

\* The body of sign_images_in_folder(folder_path, profile): the conversion
\* loop over the files listed, then the signing loop over the JPEGs then
\* listed; failing are the files for which the signer raises.
SigningRun(profile, failing) ==
    /\ LET converted == ConvertPass(folder, "b.png", profile, clock)
           jpeg_files == {n \in JpegNames : converted[n].exists}
           reached == SigningLoop(jpeg_files, failing)
           pass(n) == SignPass(converted[n], profile, clock, n \notin failing,
                               2 * signs + Rank(n))
       IN  /\ failing \subseteq jpeg_files
           /\ folder' = [n \in Names |-> IF n \in reached THEN pass(n).file
                                         ELSE converted[n]]
           /\ issued' = issued \cup UNION {pass(n).issue : n \in reached}
           /\ last' = [NoOutcome EXCEPT !.op = "sign", !.profile = profile,
                                        !.count = Cardinality(jpeg_files),
                                        !.listed = jpeg_files, !.failing = failing]
    /\ signs' = signs + 1
    /\ UNCHANGED <<clock, edits, codec, gui, store>>

\* sign_images_in_folder(folder_path, profile), with a profile of the GUI.
sign_images_in_folder(profile, failing) ==
    /\ profile \in Profiles
    /\ signs < MaxSigns
    /\ SigningRun(profile, failing)

(***************************************************************************)
(* Verification (signature_verifier.py, signature_viewer.py)               *)
(***************************************************************************)

\* signature_verifier.py:12-20 and signature_viewer.py:126-134: the carrier
\* field is read and decoded; an absent or empty field is no signature.
LoadSignature(file) ==
    IF file.usercomment = <<>>
    THEN Raise("No signature found in image EXIF metadata.")
    ELSE extract_signature_from_exif(BytesValue(file.usercomment))

\* The branch a failed load took.
LoadPath(file) == IF file.usercomment = <<>> THEN "NoSignature" ELSE "Malformed"

\* signature_utils.write_signature_to_temp_file: the UTF-8 bytes of the text.
SignatureFile(signature) == Utf8Encode(signature)

\* What a verification that reached the verifier verified.
Verified(out, signature, file, author, holder, license) ==
    [out EXCEPT !.called = TRUE, !.sig = signature, !.pixels = PixelData(file),
                !.author = author, !.holder = holder, !.license = license,
                !.year = extract_creation_year(file)]

\* A variant that reports the file authentic whatever the verifier returned.
VerifierResultTrusting(out, result) ==
    [out EXCEPT !.ret = "True", !.path = "Authentic"]

\* signature_verifier.py:36-38: a verifier result of False is raised.
VerifierResult(out, result) ==
    IF result
    THEN [out EXCEPT !.ret = "True", !.path = "Authentic"]
    ELSE [out EXCEPT !.ret = "raise", !.path = "Tampered",
                     !.err = "ValueError: Signature verification failed."]

\* verify_image_signature(image_path, profile): what the call does and returns.
verify_image_signature(n, file, profile) ==
    LET out == [NoOutcome EXCEPT !.op = "verify_image_signature", !.name = n,
                                 !.profile = profile]
        signature_str == LoadSignature(file)
        sha256 == compute_image_fingerprint(file, profile)
        verification_result ==
            verify_data(issued, sha256, SignatureFile(signature_str.val))
    IN  IF ~signature_str.ok
        THEN [out EXCEPT !.ret = "raise", !.path = LoadPath(file),
                  !.err = "ValueError: Failed to load signature from image EXIF: "
                          \o signature_str.err]
        ELSE VerifierResult(
                 [Verified(out, signature_str.val, file,
                           normalise_strings(profile.author),
                           normalise_strings(profile.copyright),
                           normalise_strings(profile.license))
                      EXCEPT !.data = sha256],
                 verification_result)

\* signature_viewer.py:184-190: the verifier result is returned.
ViewerResult(out, result) ==
    IF result
    THEN [out EXCEPT !.ret = "True", !.path = "Authentic"]
    ELSE [out EXCEPT !.ret = "False", !.path = "Tampered"]

\* verify_signed_image(img_path): the attribution is read from the EXIF fields
\* of the file; every exception is caught and False returned.
verify_signed_image(n, file) ==
    LET out == [NoOutcome EXCEPT !.op = "verify_signed_image", !.name = n]
        signature == LoadSignature(file)
        author == Strip(Utf8DecodeIgnore(file.artist))
        copyright_holder == Strip(Utf16leDecodeIgnore(file.xpauthor))
        license == Strip(Utf16leDecodeIgnore(file.xpkeywords))
        year == extract_creation_year(file)
        attribution_b64 == get_attribution_bytes(author, copyright_holder, license, year)
        sha256 == compute_visual_hash(file, attribution_b64)
        result == verify_data(issued, sha256, SignatureFile(signature.val))
    IN  IF ~signature.ok
        THEN [out EXCEPT !.ret = "False", !.path = LoadPath(file)]
        ELSE ViewerResult(
                 [Verified(out, signature.val, file, author, copyright_holder, license)
                      EXCEPT !.data = sha256],
                 result)

\* gui.py:111-123: the Verify Signature button, on a JPEG of the folder, with
\* the profile that is active.
VerifyImageSignature(n, profile) ==
    /\ n \in JpegNames /\ folder[n].exists
    /\ profile \in Profiles
    /\ last' = verify_image_signature(n, folder[n], profile)
    /\ UNCHANGED <<folder, clock, issued, signs, edits, codec, gui, store>>

\* signature_viewer.py:197-207: verify_signed_image on a JPEG of the folder.
VerifySignedImage(n) ==
    /\ n \in JpegNames /\ folder[n].exists
    /\ last' = verify_signed_image(n, folder[n])
    /\ UNCHANGED <<folder, clock, issued, signs, edits, codec, gui, store>>

(***************************************************************************)
(* The environment: the user, other programs, time                         *)
(***************************************************************************)

\* A year passes.  last describes the call that has just returned: any other
\* step clears it.
Tick ==
    /\ clock + 1 \in ClockYears
    /\ clock' = clock + 1
    /\ last' = NoOutcome
    /\ UNCHANGED <<folder, issued, signs, edits, codec, gui, store>>

\* A write to a signed file from outside the program.
Touched(file, now) == [file EXCEPT !.touched = TRUE, !.mtime = now, !.ctime = now]
CanEdit(n) == n \in JpegNames /\ folder[n].exists /\ folder[n].serial >= 0 /\ edits < MaxEdits
Edit(n, file) ==
    /\ file # folder[n]
    /\ folder' = [folder EXCEPT ![n] = Touched(file, clock)]
    /\ edits' = edits + 1
    /\ last' = NoOutcome
    /\ UNCHANGED <<clock, issued, signs, codec, gui, store>>

\* The samples an image editor may leave.
EditedSamples == {<<0, 2, 4>>, <<0, 2, 2, 0, 2, 2>>}

\* The pixels of a signed file are changed.
EditPixels(n, rgb) ==
    /\ CanEdit(n) /\ rgb \in EditedSamples
    /\ rgb # folder[n].rgb
    /\ Edit(n, [folder[n] EXCEPT !.rgb = rgb])

\* One stored attribution field of a signed file is changed.
EditArtist(n, text) ==
    /\ CanEdit(n) /\ text \in AuthorTexts
    /\ Edit(n, [folder[n] EXCEPT !.artist = Utf8Encode(text)])

EditXPAuthor(n, text) ==
    /\ CanEdit(n) /\ text \in HolderTexts
    /\ Edit(n, [folder[n] EXCEPT !.xpauthor = Utf16leEncode(text)])

EditXPKeywords(n, text) ==
    /\ CanEdit(n) /\ text \in LicenseTexts
    /\ Edit(n, [folder[n] EXCEPT !.xpkeywords = Utf16leEncode(text)])

\* An EXIF date is written into a signed file.
EditDate(n, year) ==
    /\ CanEdit(n) /\ year \in FileYears
    /\ Edit(n, [folder[n] EXCEPT !.date = year])

\* The bytes a corruption may put in the place of a byte of the payload:
\* "!", "=", "A" and a byte outside ASCII.
CorruptBytes == {33, 61, 65, 200}

\* One byte of the Base64 payload of the carrier field is replaced.
CorruptCarrier(n, i, b) ==
    /\ CanEdit(n) /\ b \in CorruptBytes
    /\ i \in 9..Len(folder[n].usercomment)
    /\ Edit(n, [folder[n] EXCEPT !.usercomment[i] = b])

\* The carrier field loses its charset header, or is removed.
DropCarrierHeader(n) ==
    /\ CanEdit(n) /\ Len(folder[n].usercomment) >= 8
    /\ Edit(n, [folder[n] EXCEPT !.usercomment = SubSeq(@, 9, Len(@))])

RemoveCarrier(n) ==
    /\ CanEdit(n)
    /\ Edit(n, [folder[n] EXCEPT !.usercomment = <<>>])

(***************************************************************************)
(* The run of the program                                                  *)
(***************************************************************************)

\* The JPEG and the PNG the folder holds when the program starts.
InitialJpeg(year, date) ==
    [NoFile EXCEPT !.exists = TRUE, !.rgb = <<1, 2, 3>>, !.date = date,
                   !.mtime = year, !.ctime = year]
InitialPng(mode) ==
    [NoFile EXCEPT !.exists = TRUE, !.mode = mode, !.rgb = <<5, 6, 7>>,
                   !.alpha = IF mode = "RGBA" THEN <<128>> ELSE <<>>,
                   !.mtime = 2024, !.ctime = 2024]

Init ==
    /\ \E year \in FileYears, date \in {0, 2023}, png \in {"none", "RGB", "RGBA"} :
           folder = [n \in Names |->
                        IF n = "a.jpg" THEN InitialJpeg(year, date)
                        ELSE IF n = "b.png" /\ png # "none" THEN InitialPng(png)
                        ELSE NoFile]
    /\ clock = 2024
    /\ issued = {}
    /\ signs = 0
    /\ edits = 0
    /\ last = NoOutcome
    /\ codec = NoCodec
    /\ gui = NoGui
    /\ store = NoStore

Next ==
    \/ \E p \in Profiles, failing \in SUBSET JpegNames : sign_images_in_folder(p, failing)
    \/ \E n \in JpegNames, p \in Profiles : VerifyImageSignature(n, p)
    \/ \E n \in JpegNames : VerifySignedImage(n)
    \/ Tick
    \/ \E n \in JpegNames, rgb \in EditedSamples : EditPixels(n, rgb)
    \/ \E n \in JpegNames, text \in AuthorTexts : EditArtist(n, text)
    \/ \E n \in JpegNames, text \in HolderTexts : EditXPAuthor(n, text)
    \/ \E n \in JpegNames, text \in LicenseTexts : EditXPKeywords(n, text)
    \/ \E n \in JpegNames, year \in FileYears : EditDate(n, year)
    \/ \E n \in JpegNames, i \in 9..20, b \in CorruptBytes : CorruptCarrier(n, i, b)
    \/ \E n \in JpegNames : DropCarrierHeader(n)
    \/ \E n \in JpegNames : RemoveCarrier(n)

Spec == Init /\ [][Next]_vars

(***************************************************************************)
(* Properties of signing and verification                                  *)
(***************************************************************************)

IsVerification(out) == out.op \in {"verify_image_signature", "verify_signed_image"}

\* The record of the signature that the last successful signing of file n embedded.
Embedded(n) == CHOOSE e \in issued : e.serial = folder[n].serial

\* The last call verified a file that was signed without error and not changed since.
VerifiedUnchanged ==
    /\ IsVerification(last)
    /\ folder[last.name].serial >= 0
    /\ ~folder[last.name].touched

\* C1 (as claimed): a verification of a file that was signed without error and
\* has not changed since, with the profile it was signed with, reports the
\* file authentic, from both entry points.
C1_SignedThenVerifiedIsAuthentic ==
    (/\ VerifiedUnchanged
     /\ last.op = "verify_image_signature" => last.profile = Embedded(last.name).profile)
    => last.ret = "True"

\* What is verified differs from what was signed in the pixels alone, or in
\* exactly one of author, copyright holder, license and year.
ChangedInOne(e, out) ==
    LET differing == {f \in {"author", "holder", "license", "year"} :
                         \/ f = "author" /\ e.author # out.author
                         \/ f = "holder" /\ e.holder # out.holder
                         \/ f = "license" /\ e.license # out.license
                         \/ f = "year" /\ e.year # out.year}
    IN  \/ e.pixels # out.pixels /\ differing = {}
        \/ e.pixels = out.pixels /\ Cardinality(differing) = 1

\* C2: when the verifier is reached with the signature issued for a signing
\* and the pixels, or exactly one of the author, copyright holder, license and
\* year that feed the attribution bytes, differ from the ones signed, the
\* verification does not report authentic.
C2_ChangeIsNeverAuthentic ==
    \A e \in issued :
        (IsVerification(last) /\ last.called /\ last.sig = e.sig /\ ChangedInOne(e, last))
        => last.path # "Authentic"

\* C2 witness: such a verification happened and ended Tampered.
C2_Witness ==
    \E e \in issued :
        /\ IsVerification(last) /\ last.called /\ last.sig = e.sig
        /\ ChangedInOne(e, last)
        /\ last.path = "Tampered"

\* Only the stored attribution fields of a signed file were edited: the
\* pixels, the carrier field and the year are as they were when it was signed.
OnlyStoredAttributionEdited(n) ==
    /\ folder[n].serial >= 0
    /\ LET e == Embedded(n)
       IN  /\ PixelData(folder[n]) = e.pixels
           /\ folder[n].usercomment = CarrierField(e.sig)
           /\ extract_creation_year(folder[n]) = e.year
           /\ \/ folder[n].artist # Utf8Encode(e.author)
              \/ folder[n].xpauthor # Utf16leEncode(e.holder)
              \/ folder[n].xpkeywords # Utf16leEncode(e.license)

\* C3 (as claimed): after a stored attribution field of a signed file is
\* edited, every verification entry point reports Tampered, also when the
\* caller passes the profile the file was signed with.
C3_StoredEditIsTampered ==
    (IsVerification(last) /\ OnlyStoredAttributionEdited(last.name))
    => last.path = "Tampered"

\* Exactly one byte of the Base64 payload of the carrier of file n differs from
\* the carrier that signing wrote; CorruptedByte is that byte.
CorruptedAt(n) ==
    {i \in 9..Len(folder[n].usercomment) :
        folder[n].usercomment[i] # CarrierField(Embedded(n).sig)[i]}
OneByteCorrupted(n) ==
    /\ folder[n].serial >= 0
    /\ Len(folder[n].usercomment) = Len(CarrierField(Embedded(n).sig))
    /\ SubSeq(folder[n].usercomment, 1, 8) = AsciiPrefix
    /\ Cardinality(CorruptedAt(n)) = 1
CorruptedByte(n) == folder[n].usercomment[CHOOSE i \in CorruptedAt(n) : TRUE]

\* C6 (as claimed): with one byte of the Base64 payload corrupted, verification
\* ends with the malformed-field outcome and does not reach the verifier.
C6_CorruptedByteIsMalformed ==
    (IsVerification(last) /\ OneByteCorrupted(last.name))
    => (last.path = "Malformed" /\ ~last.called)

\* C6 (amended): with one byte of the Base64 payload replaced by a byte that
\* is neither in the Base64 alphabet nor "=", verification ends with the
\* malformed-field outcome and does not reach the verifier.
C6_ForeignByteIsMalformed ==
    (/\ IsVerification(last) /\ OneByteCorrupted(last.name)
     /\ B64Sextet(CorruptedByte(last.name)) = 64
     /\ CorruptedByte(last.name) \notin B64Pad)
    => (last.path = "Malformed" /\ ~last.called)

\* C6 witness: a verification of a carrier with a foreign byte ended malformed.
C6_Witness ==
    /\ IsVerification(last) /\ OneByteCorrupted(last.name)
    /\ B64Sextet(CorruptedByte(last.name)) = 64
    /\ CorruptedByte(last.name) \notin B64Pad
    /\ last.path = "Malformed"

\* What the caller of a verification gets: the value returned, the exception raised.
Observable(out) == <<out.ret, out.err>>

\* The outcome of the entry point of the last call on file, had it been called on it.
OutcomeOn(file) ==
    IF last.op = "verify_image_signature"
    THEN verify_image_signature(last.name, file, last.profile)
    ELSE verify_signed_image(last.name, file)

\* The file of the last call with a carrier field that does not decode ("Q"
\* after the header), and with a well-formed carrier of a signature that was
\* never issued ("-").
WithMalformedCarrier(file) == [file EXCEPT !.usercomment = AsciiPrefix \o <<81>>]
WithForeignSignature(file) == [file EXCEPT !.usercomment = CarrierField(<<45>>)]

\* C9 (as claimed): what the caller gets for a file without a carrier field
\* differs from what it gets for the same file with a malformed carrier field
\* and with a signature that does not match.
C9_NoSignatureIsDistinct ==
    (IsVerification(last) /\ last.path = "NoSignature")
    => LET file == folder[last.name]
           malformed == OutcomeOn(WithMalformedCarrier(file))
           mismatch == OutcomeOn(WithForeignSignature(file))
       IN  /\ Observable(last) # Observable(malformed)
           /\ Observable(last) # Observable(mismatch)

\* C10 (as claimed): when the verifier was called and returned false, the
\* entry point returns the negative result as a value and raises nothing.
C10_TamperedIsReturned ==
    (IsVerification(last) /\ last.called /\ last.path = "Tampered")
    => (last.ret = "False" /\ last.err = "")

\* The serialisation of an attribution record, piece by piece: the bytes of
\* the author, a space, the bytes C2 A9 of the copyright sign, the digits of
\* the year, a space, the bytes of the copyright holder, a period, a space,
\* the bytes of the license.
AttributionLayout(author, holder, license, year) ==
    Utf8Encode(author) \o <<32, 194, 169>> \o Decimal(year) \o <<32>>
    \o Utf8Encode(holder) \o <<46, 32>> \o Utf8Encode(license)

\* "Jane Doe", "Acme", "CC BY", and the bytes of "Jane Doe (c)2024 Acme. CC BY"
\* with the copyright sign in the place of "(c)".
JaneDoe == <<74, 97, 110, 101, 32, 68, 111, 101>>
Acme == <<65, 99, 109, 101>>
CcBy == <<67, 67, 32, 66, 89>>
JaneDoeAttribution ==
    <<74, 97, 110, 101, 32, 68, 111, 101, 32, 194, 169, 50, 48, 50, 52, 32,
      65, 99, 109, 101, 46, 32, 67, 67, 32, 66, 89>>

\* C21: the attribution bytes are the UTF-8 bytes of author, space, copyright
\* sign and year, space, copyright holder, period, space, license, in that
\* order; every fingerprint that was signed and the fingerprint of every
\* verification, from both entry points, is over the pixels followed by
\* these bytes of its author, copyright holder, license and year.
C21_AttributionLayoutIsShared ==
    /\ get_attribution_bytes(JaneDoe, Acme, CcBy, 2024) = JaneDoeAttribution
    /\ \A e \in issued :
           e.data = Sha256(e.pixels \o AttributionLayout(e.author, e.holder, e.license, e.year))
    /\ (IsVerification(last) /\ last.called)
       => last.data = Sha256(last.pixels \o AttributionLayout(last.author, last.holder,
                                                              last.license, last.year))

\* C21 witness: a file signed with an author and a copyright holder that
\* differ was verified from the entry point that reads the stored fields, and
\* the fingerprint verified was the fingerprint signed.
C21_Witness ==
    /\ last.op = "verify_signed_image" /\ last.called
    /\ last.author # last.holder
    /\ \E e \in issued : e.data = last.data /\ e.author = last.author

\* C26 (as claimed): for an unmodified signed file, the author, copyright
\* holder and license that verify_signed_image reads back from the stored
\* fields, with the year extract_creation_year gives, serialise to the
\* attribution bytes that were fingerprinted at signing.
C26_StoredAttributionRoundTrip ==
    (last.op = "verify_signed_image" /\ last.called /\ VerifiedUnchanged)
    => LET e == Embedded(last.name)
       IN  get_attribution_bytes(last.author, last.holder, last.license, last.year)
           = get_attribution_bytes(e.author, e.holder, e.license, e.year)

\* C27: a verification reports the file authentic only when it called the
\* verifier, with the signature decoded from the carrier field of the file
\* and the fingerprint of the current pixels of the file and the attribution
\* of the attempt, and the verifier found that signature valid for that
\* fingerprint; a verification of a file whose carrier field is absent, empty
\* or does not decode does not call the verifier.
C27_AuthenticOnlyByVerifier ==
    IsVerification(last)
    => LET file == folder[last.name]
           carrier == LoadSignature(file)
           attribution == get_attribution_bytes(last.author, last.holder, last.license,
                                                extract_creation_year(file))
       IN  /\ last.ret = "True"
              => /\ last.called
                 /\ carrier.ok /\ last.sig = carrier.val
                 /\ last.data = Sha256(PixelData(file) \o attribution)
                 /\ verify_data(issued, last.data, SignatureFile(last.sig))
           /\ ~carrier.ok => ~last.called

\* C27 witness: verify_image_signature called the verifier and reported the
\* file authentic.
C27_Witness ==
    /\ last.op = "verify_image_signature"
    /\ last.called
    /\ last.ret = "True"

(***************************************************************************)
(* The codec on its own: extract_signature_from_exif applied to the field   *)
(* signing builds for a text, to variants of that field, and to raw fields  *)
(***************************************************************************)

\* Bounds: the length of a signature text and of a raw payload.
MaxTextLen == 3
MaxRawLen == 4

\* The code points of the texts: "-", "A", line feed, U+00E9, U+20AC, U+1F600.
TextChars == {45, 65, 10, 233, 8364, 128512}
\* The bytes of the raw payloads: "Q", "w", "/", "=", "!".
RawBytes == {81, 119, 47, 61, 33}

\* The longest carrier field of a text: the header and four Base64 characters
\* for every three bytes of at most four bytes a character.
MaxFieldLen == 8 + 4 * ((4 * MaxTextLen + 2) \div 3)

SeqsUpTo(S, n) == UNION {[1..k -> S] : k \in 0..n}

\* A signature text to encode, or a raw payload behind the ASCII header.
CodecInit ==
    /\ folder = [n \in Names |-> NoFile]
    /\ clock = 2024
    /\ issued = {}
    /\ signs = 0
    /\ edits = 0
    /\ last = NoOutcome
    /\ gui = NoGui
    /\ store = NoStore
    /\ \/ \E text \in SeqsUpTo(TextChars, MaxTextLen) :
              codec = [NoCodec EXCEPT !.phase = "text", !.text = text]
       \/ \E raw \in SeqsUpTo(RawBytes, MaxRawLen) :
              codec = [NoCodec EXCEPT !.phase = "field", !.form = "raw",
                                      !.exif_data = BytesValue(AsciiPrefix \o raw)]

CodecStep(next) ==
    /\ codec' = next
    /\ UNCHANGED <<folder, clock, issued, signs, edits, last, gui, store>>

\* signing_engine.py:159-184: the carrier field of the text.
CodecEncode ==
    /\ codec.phase = "text"
    /\ CodecStep([codec EXCEPT !.phase = "field", !.form = "dumped",
                               !.exif_data = BytesValue(CarrierField(codec.text))])

Dumped == codec.phase = "field" /\ codec.form = "dumped"
Field == codec.exif_data.items[1]

\* The same payload without the charset header.
CodecBare ==
    /\ Dumped
    /\ CodecStep([codec EXCEPT !.form = "bare",
                               !.exif_data = BytesValue(SubSeq(Field, 9, Len(Field)))])

\* The same field as a tuple of two byte chunks, and as a tuple of one.
CodecSplit(k) ==
    /\ Dumped /\ k \in 1..(Len(Field) - 1)
    /\ CodecStep([codec EXCEPT !.form = "split",
                               !.exif_data = TupleValue(<<SubSeq(Field, 1, k),
                                                          SubSeq(Field, k + 1, Len(Field))>>)])

CodecWhole ==
    /\ Dumped
    /\ CodecStep([codec EXCEPT !.form = "whole", !.exif_data = TupleValue(<<Field>>)])

\* A value that is no byte string in the place of the field.
CodecRetype(kind) ==
    /\ Dumped
    /\ CodecStep([codec EXCEPT !.form = "retyped",
                               !.exif_data = CASE kind = "str" -> StrValue(Field)
                                               [] kind = "inttuple" -> IntTupleValue(Field)
                                               [] kind = "empty" -> TupleValue(<<>>)
                                               [] OTHER -> NoneValue])

\* extract_signature_from_exif is applied.
CodecDecode ==
    /\ codec.phase = "field"
    /\ CodecStep([codec EXCEPT !.phase = "decoded",
                               !.result = extract_signature_from_exif(codec.exif_data)])

CodecNext ==
    \/ CodecEncode
    \/ CodecBare
    \/ \E k \in 1..MaxFieldLen : CodecSplit(k)
    \/ CodecWhole
    \/ \E kind \in {"str", "inttuple", "empty", "none"} : CodecRetype(kind)
    \/ CodecDecode

CodecSpec == CodecInit /\ [][CodecNext]_vars

\* C4: decoding the carrier field that signing builds from a text gives the text.
C4_CarrierRoundTrip ==
    (codec.phase = "decoded" /\ codec.form = "dumped") => codec.result = Return(codec.text)

\* C4 witness: a text with a character outside ASCII was encoded and decoded.
C4_Witness ==
    /\ codec.phase = "decoded" /\ codec.form = "dumped"
    /\ \E i \in 1..Len(codec.text) : codec.text[i] >= 128
    /\ Len(Utf8Encode(codec.text)) % 3 # 0
    /\ codec.result.ok

\* C5 (as claimed): the bare Base64 payload, without the header, decodes to the
\* same text as the field with the header.
C5_HeaderIsOptional ==
    (codec.phase = "decoded" /\ codec.form = "bare" /\ codec.text # <<>>)
    => codec.result = Return(codec.text)

\* The text after the header is Base64: groups of four alphabet characters, the
\* last group closed by at most two "=".
IsBase64(text) ==
    /\ Len(text) % 4 = 0
    /\ \A i \in 1..Len(text) :
           \/ B64Sextet(text[i]) < 64
           \/ text[i] \in B64Pad /\ i >= Len(text) - 1
                                 /\ \A j \in i..Len(text) : text[j] \in B64Pad

\* C7 (as claimed): extract_signature_from_exif fails with a ValueError when
\* the input is no byte sequence, when the text after the header is not valid
\* Base64, and when the decoded bytes are not valid UTF-8.
C7_MalformedFieldFails ==
    LET data == codec.exif_data
        payload == SubSeq(data.items[1], 9, Len(data.items[1]))
    IN  (/\ codec.phase = "decoded"
         /\ \/ data.kind \in {"str", "inttuple", "none"}
            \/ /\ codec.form = "raw"
               /\ \/ ~IsBase64(payload)
                  \/ ~Utf8Decode(B64Decode(payload).val).ok)
        => (~codec.result.ok /\ codec.result.val = <<>>)

\* C8 (as claimed): a field split into two chunks decodes to the same text as
\* the field in one piece.
C8_ChunksAreConcatenated ==
    (codec.phase = "decoded" /\ codec.form = "split" /\ codec.text # <<>>)
    => codec.result = Return(codec.text)

(***************************************************************************)
(* Properties of the batch                                                 *)
(***************************************************************************)

\* The JPEGs that carry a signature embedded by the signing that just ended.
SignedInLastRun ==
    {n \in JpegNames : folder[n].exists /\ folder[n].serial = 2 * (signs - 1) + Rank(n)}

\* C14 (as claimed): the count that sign_images_in_folder reports is the
\* number of files whose signing succeeded.
C14_CountIsSuccesses ==
    last.op = "sign" => last.count = Cardinality(SignedInLastRun)

\* C15 (as claimed): a signing in which the signer is unusable, so that it
\* raises for every file it is called for, changes no file of the folder.
C15_UnusableSignerChangesNothing ==
    [][(last'.op = "sign" /\ last'.listed # {} /\ last'.failing = last'.listed)
       => folder' = folder]_vars

\* C17 (as claimed): a file for which the signer raises is left by the signing
\* as it was before.
C17_FailedSigningLeavesFile ==
    [][\A n \in JpegNames :
          (last'.op = "sign" /\ n \in last'.failing) => folder'[n] = folder[n]]_vars

\* C18 (as claimed): every signature was issued under the key of the profile
\* that was passed to the signing.
C18_SignedUnderProfileKey ==
    \A e \in issued : e.keyid = e.profile.gpg_key

\* C19 (as claimed): the fingerprint of a file under a profile is the same
\* whatever the timestamps of the file are.
C19_FingerprintIgnoresTimestamps ==
    \A n \in JpegNames : \A profile \in Profiles : \A year \in FileYears \cup ClockYears :
        folder[n].exists
        => compute_image_fingerprint([folder[n] EXCEPT !.mtime = year, !.ctime = year],
                                     profile)
           = compute_image_fingerprint(folder[n], profile)

(***************************************************************************)
(* Repeated batches: folders with files of every kind, signed more than     *)
(* once, with profiles that differ in whitespace only                       *)
(***************************************************************************)

\* Bound: the signings of one run of the batch specification.
MaxBatchRuns == 2

\* BaseProfile with incidental whitespace: " A", "H" and a line feed, "CC  BY"
\* with a tab before it.
SpacedProfile ==
    [BaseProfile EXCEPT !.author = <<32, 65>>, !.copyright = <<72, 10>>,
                        !.license = <<9, 67, 67, 32, 32, 66, 89>>]
BatchProfiles == {BaseProfile, SpacedProfile}

\* A file named a.jpg: a JPEG, or a PNG with an alpha channel under that name
\* (Image.open goes by the content of a file, the loops by its name).
BatchJpeg(year, mode) ==
    [NoFile EXCEPT !.exists = TRUE, !.mode = mode, !.rgb = <<1, 2, 3>>,
                   !.alpha = IF mode = "RGBA" THEN <<128>> ELSE <<>>,
                   !.mtime = year, !.ctime = year]

\* A file named b.png: opaque, with an alpha channel, with a palette and a
\* transparency entry, or one that Image.open cannot decode.
BatchPng(kind) ==
    [NoFile EXCEPT !.exists = TRUE,
                   !.mode = IF kind = "unreadable" THEN "RGB" ELSE kind,
                   !.ptrans = (kind = "P"),
                   !.readable = (kind # "unreadable"),
                   !.rgb = <<5, 6, 7>>,
                   !.alpha = IF kind = "RGBA" THEN <<128>> ELSE <<>>,
                   !.mtime = 2024, !.ctime = 2024]

BatchInit ==
    /\ \E year \in FileYears, mode \in {"RGB", "RGBA"},
          kind \in {"none", "RGB", "RGBA", "P", "unreadable"} :
           folder = [n \in Names |->
                        IF n = "a.jpg" THEN BatchJpeg(year, mode)
                        ELSE IF n = "b.png" /\ kind # "none" THEN BatchPng(kind)
                        ELSE NoFile]
    /\ clock = 2024
    /\ issued = {}
    /\ signs = 0
    /\ edits = 0
    /\ last = NoOutcome
    /\ codec = NoCodec
    /\ gui = NoGui
    /\ store = NoStore

\* sign_images_in_folder(folder_path, profile), run again and again.
SignBatch(profile, failing) ==
    /\ profile \in BatchProfiles
    /\ signs < MaxBatchRuns
    /\ SigningRun(profile, failing)

\* gui.py:111-123: the Verify Signature button after a batch.
VerifyBatchImage(n, profile) ==
    /\ n \in JpegNames /\ folder[n].exists
    /\ profile \in BatchProfiles
    /\ last' = verify_image_signature(n, folder[n], profile)
    /\ UNCHANGED <<folder, clock, issued, signs, edits, codec, gui, store>>

BatchNext ==
    \/ \E p \in BatchProfiles, failing \in SUBSET JpegNames : SignBatch(p, failing)
    \/ \E n \in JpegNames, p \in BatchProfiles : VerifyBatchImage(n, p)
    \/ \E n \in JpegNames : VerifySignedImage(n)
    \/ Tick

BatchSpec == BatchInit /\ [][BatchNext]_vars

\* has_transparency classifies the file as transparent.
Transparent(file) ==
    file.exists /\ file.readable /\ has_transparency(file.mode, file.ptrans)

\* C11 (as claimed): for a file that has_transparency classifies as
\* transparent, a signing does not call the signer, writes no carrier field
\* and creates no converted JPEG; the label (with the change time that goes
\* with it) is all that changes.
C11_TransparentIsOnlyLabelled ==
    [][last'.op = "sign"
       => \A n \in Names :
            Transparent(folder[n])
            => /\ n \notin last'.listed
               /\ folder'[n] = [folder[n] EXCEPT !.label = folder'[n].label,
                                                 !.ctime = folder'[n].ctime]
               /\ folder'[n].usercomment = <<>>
               /\ n = "b.png" => ~folder'[ConvertedName(n)].exists]_vars

\* C13: a signing signs every JPEG its signing loop lists for which the signer
\* does not raise, whichever other files fail.
C13_FailureStopsNoOtherFile ==
    last.op = "sign" => \A n \in last.listed \ last.failing : n \in SignedInLastRun

\* C13 witness: the signer raised for the first JPEG and the converted JPEG
\* after it was signed in the same run.
C13_Witness ==
    /\ last.op = "sign"
    /\ "a.jpg" \in last.failing
    /\ "b_converted.jpg" \in SignedInLastRun

\* File n was signed in two runs in a row with the same profile.
ResignedWithSameProfile(n) ==
    /\ folder[n].serial >= 2
    /\ \E e \in issued : /\ e.serial = folder[n].serial - 2
                         /\ e.profile = Embedded(n).profile

\* C16 (as claimed): a file signed a second time with the same profile still
\* verifies as authentic.
C16_ResignedIsAuthentic ==
    (/\ IsVerification(last)
     /\ ResignedWithSameProfile(last.name)
     /\ last.op = "verify_image_signature" => last.profile = Embedded(last.name).profile)
    => last.ret = "True"

\* The words of a text: its maximal runs of characters that are not whitespace.
RECURSIVE Words(_)
Words(text) ==
    IF text = <<>> THEN <<>>
    ELSE IF IsSpace(Head(text)) THEN Words(Tail(text))
    ELSE LET ends == {i \in 1..Len(text) : IsSpace(text[i])}
             k == IF ends = {} THEN Len(text) + 1
                  ELSE CHOOSE i \in ends : \A j \in ends : i <= j
         IN  <<SubSeq(text, 1, k - 1)>> \o Words(SubSeq(text, k, Len(text)))

\* Two profiles differ in incidental whitespace only.
ProfilesAlike(p, q) ==
    /\ Words(p.author) = Words(q.author)
    /\ Words(p.copyright) = Words(q.copyright)
    /\ Words(p.license) = Words(q.license)

\* The profile whose fields a verification is about: the one passed, or the
\* one whose fields signing stored in the file.
ProfileVerified(out) ==
    IF out.op = "verify_image_signature" THEN out.profile ELSE Embedded(out.name).profile

\* C20: profiles that differ in incidental whitespace only give the same
\* fingerprint of a file, the same attribution fields at signing, and at a
\* verification the attribution fields of the signing.
C20_WhitespaceIsNormalised ==
    /\ \A p \in BatchProfiles : \A q \in BatchProfiles : \A n \in JpegNames :
           (ProfilesAlike(p, q) /\ folder[n].exists)
           => compute_image_fingerprint(folder[n], p) = compute_image_fingerprint(folder[n], q)
    /\ \A e \in issued : \A f \in issued :
           ProfilesAlike(e.profile, f.profile)
           => <<e.author, e.holder, e.license>> = <<f.author, f.holder, f.license>>
    /\ (IsVerification(last) /\ last.called /\ folder[last.name].serial >= 0)
       => \A e \in issued :
              ProfilesAlike(e.profile, ProfileVerified(last))
              => <<last.author, last.holder, last.license>> = <<e.author, e.holder, e.license>>

\* C20 witness: a file signed with the profile with the whitespace verified as
\* authentic with the profile without it.
C20_Witness ==
    /\ last.op = "verify_image_signature"
    /\ folder[last.name].serial >= 0
    /\ Embedded(last.name).profile = SpacedProfile
    /\ last.profile = BaseProfile
    /\ last.ret = "True"

\* C22 (as claimed): a signing leaves the non-JPEG source as it was (its
\* label and the change time that goes with it apart), and its conversion
\* loop writes the '<stem>_converted.jpg' of the source over no file that was
\* in the folder before the call.
C22_ConversionOverwritesNothing ==
    [][last'.op = "sign"
       => /\ folder'["b.png"] = [folder["b.png"] EXCEPT !.label = folder'["b.png"].label,
                                                        !.ctime = folder'["b.png"].ctime]
          /\ folder[ConvertedName("b.png")].exists
             => ConvertPass(folder, "b.png", last'.profile, clock)[ConvertedName("b.png")]
                = folder[ConvertedName("b.png")]]_vars

\* C25 (as claimed): compute_visual_hash takes the RGBA layout for exactly the
\* images that has_transparency classifies as transparent, and the RGB
\* layout for the others.
C25_LayoutFollowsTransparency ==
    \A n \in Names :
        (folder[n].exists /\ folder[n].readable)
        => (CanonicalMode(folder[n].mode) = "RGBA"
            <=> has_transparency(folder[n].mode, folder[n].ptrans))

(***************************************************************************)
(* The GUI (gui.py): the callbacks of the buttons on the one thread of the  *)
(* Tk main loop, step by step around every call into gpg_manager            *)
(***************************************************************************)

\* Bound: the buttons pressed (and the command lines run) in one run of the GUI.
MaxClicks == 3

\* Two profiles a user can type into the form of prompt_for_profile: the
\* author "A (c)2024 B" with the copyright holder "C", and the author "A" with
\* the copyright holder "B (c)2024 C" ((c) is the copyright sign).
RunOnAuthorProfile ==
    [BaseProfile EXCEPT !.author = <<65, 32, 169>> \o Decimal(2024) \o <<32, 66>>,
                        !.copyright = <<67>>]
RunOnHolderProfile ==
    [BaseProfile EXCEPT !.author = <<65>>,
                        !.copyright = <<66, 32, 169>> \o Decimal(2024) \o <<32, 67>>]
GuiProfiles == {BaseProfile, RunOnAuthorProfile, RunOnHolderProfile}

\* A callback that was entered and has not returned: the handler, where it
\* is, and its local variables (the profile, the file of the current pass and
\* what it was before the pass, the JPEGs still to sign, the ones listed and
\* the ones that failed, the temporary signature file).
NoFrame ==
    [handler |-> "", pc |-> "", profile |-> NoProfile, name |-> "", before |-> NoFile,
     todo |-> {}, listed |-> {}, failing |-> {}, tmp |-> 0]

Top(stack) == IF stack = <<>> THEN NoFrame ELSE stack[Len(stack)]
Pop(stack) == SubSeq(stack, 1, Len(stack) - 1)

\* A variant in which a button is served whatever the thread is doing, as
\* with a callback that hands its work to a thread of its own.
DispatchableAlways(stack) == TRUE

\* gui.py:135 and profile_manager.py:126: a button of the main window is
\* served by root.mainloop() when no callback is running, and by the
\* win.wait_window() that a callback sits in while the profile form is open
\* (the form sets no grab).  A callback that runs, a call into gpg_manager
\* that has not returned and the modal dialogs serve no button.
Dispatchable(stack) ==
    stack = <<>> \/ Top(stack).handler = "prompt_for_profile"

\* A call into gpg_manager that has not returned, made by the callback at
\* the given depth of the stack.
GpgCall(fn, data, signature_bytes, depth) ==
    [fn |-> fn, data |-> data, sig |-> signature_bytes, depth |-> depth]

\* profile_manager.py:98-108, on_submit: the profile of the form is stored
\* under its name.
on_submit(profiles, entry) == [profiles EXCEPT ![entry.name] = entry]

\* The profile the form of the GUI run is filled with.
GuiEntry == [name |-> "P", author |-> <<65>>]

\* A step of the GUI that returns from no signing and no verification.
GuiStep(next) ==
    /\ gui' = next
    /\ last' = NoOutcome
    /\ UNCHANGED <<folder, clock, issued, signs, edits, codec, store>>

\* gui.py:89-90: Create Profile opens the form and waits in wait_window.
CreateProfileClicked ==
    /\ Dispatchable(gui.stack)
    /\ gui.clicks < MaxClicks
    /\ GuiStep([gui EXCEPT !.clicks = @ + 1,
                           !.stack = Append(@, [NoFrame EXCEPT !.handler = "prompt_for_profile",
                                                               !.pc = "wait_window"])])

\* The form is closed, by Save Profile (on_submit, then gui.py:91-94) or
\* without saving.
ProfileFormClosed(submitted) ==
    /\ Top(gui.stack).handler = "prompt_for_profile"
    /\ gui' = [gui EXCEPT !.stack = Pop(@)]
    /\ store' = IF submitted
                THEN [profiles |-> on_submit(on_submit(store.profiles, GuiEntry), GuiEntry),
                      op |-> "create", saved |-> GuiEntry]
                ELSE store
    /\ last' = NoOutcome
    /\ UNCHANGED <<folder, clock, issued, signs, edits, codec>>

\* gui.py:102-109 and signing_engine.py:92-125: Tag Folder with a profile
\* selected; sign_images_in_folder runs its conversion loop and lists the JPEGs.
TagFolderClicked(profile) ==
    /\ Dispatchable(gui.stack)
    /\ gui.clicks < MaxClicks
    /\ profile \in GuiProfiles
    /\ LET converted == ConvertPass(folder, "b.png", profile, clock)
           jpeg_files == {n \in JpegNames : converted[n].exists}
       IN  /\ folder' = converted
           /\ gui' = [gui EXCEPT !.clicks = @ + 1, !.stack =
                         Append(@, [NoFrame EXCEPT !.handler = "sign_images_in_folder",
                                                   !.pc = "loop", !.profile = profile,
                                                   !.todo = jpeg_files, !.listed = jpeg_files])]
    /\ last' = NoOutcome
    /\ UNCHANGED <<clock, issued, signs, edits, codec, store>>

\* The JPEG the signing loop takes next.
NextJpeg(todo) == CHOOSE n \in todo : \A m \in todo : Rank(n) <= Rank(m)

\* signing_engine.py:127-151: the next JPEG is saved again, fingerprinted,
\* and sign_data is called with the fingerprint.  A file that cannot be
\* opened ends the pass (line 193).
SignDataCalled ==
    /\ Top(gui.stack).handler = "sign_images_in_folder"
    /\ Top(gui.stack).pc = "loop"
    /\ Top(gui.stack).todo # {}
    /\ LET frame == Top(gui.stack)
           n == NextJpeg(frame.todo)
           serial == 2 * signs + Rank(n)
           unsigned == SignPass(folder[n], frame.profile, clock, FALSE, serial)
           signed == SignPass(folder[n], frame.profile, clock, TRUE, serial)
           sha256 == (CHOOSE e \in signed.issue : TRUE).data
           depth == Len(gui.stack)
       IN  IF signed.issue = {}
           THEN /\ gui' = [gui EXCEPT !.stack[depth].todo = @ \ {n}]
                /\ UNCHANGED folder
           ELSE /\ folder' = [folder EXCEPT ![n] = unsigned.file]
                /\ gui' = [gui EXCEPT !.stack[depth] =
                              [frame EXCEPT !.pc = "sign_data", !.name = n,
                                            !.before = folder[n]],
                           !.calls = @ \cup {GpgCall("sign_data", sha256, <<>>, depth)}]
    /\ last' = NoOutcome
    /\ UNCHANGED <<clock, issued, signs, edits, codec, store>>

\* signing_engine.py:151-193: sign_data returns the signature, which is
\* embedded with the attribution fields, or raises, which ends the pass.
SignDataReturned(signer_ok) ==
    /\ Top(gui.stack).handler = "sign_images_in_folder"
    /\ Top(gui.stack).pc = "sign_data"
    /\ LET frame == Top(gui.stack)
           n == frame.name
           pass == SignPass(frame.before, frame.profile, clock, signer_ok,
                            2 * signs + Rank(n))
           depth == Len(gui.stack)
       IN  /\ folder' = [folder EXCEPT ![n] = pass.file]
           /\ issued' = issued \cup pass.issue
           /\ gui' = [gui EXCEPT !.stack[depth] =
                         [frame EXCEPT !.pc = "loop", !.name = "", !.before = NoFile,
                                       !.todo = @ \ {n},
                                       !.failing = IF signer_ok THEN @ ELSE @ \cup {n}],
                      !.calls = {c \in @ : c.depth # depth}]
    /\ last' = NoOutcome
    /\ UNCHANGED <<clock, signs, edits, codec, store>>

\* signing_engine.py:195: the loop is over, the count is shown, the callback returns.
TagFolderDone ==
    /\ Top(gui.stack).handler = "sign_images_in_folder"
    /\ Top(gui.stack).pc = "loop"
    /\ Top(gui.stack).todo = {}
    /\ LET frame == Top(gui.stack)
       IN  last' = [NoOutcome EXCEPT !.op = "sign", !.profile = frame.profile,
                                     !.count = Cardinality(frame.listed),
                                     !.listed = frame.listed, !.failing = frame.failing]
    /\ gui' = [gui EXCEPT !.stack = Pop(@)]
    /\ signs' = signs + 1
    /\ UNCHANGED <<folder, clock, issued, edits, codec, store>>

\* signature_viewer.py:29-118: View Signature verifies as verify_signed_image
\* does (lines 47-99 are lines 126-182) and shows the result in a window.
view_embedded_signature(n, file) ==
    [verify_signed_image(n, file) EXCEPT !.op = "view_embedded_signature", !.ret = ""]

\* What a verification entry point does and reports when the verifier answers.
VerificationOutcome(handler, n, file, profile) ==
    IF handler = "verify_image_signature" THEN verify_image_signature(n, file, profile)
    ELSE IF handler = "view_embedded_signature" THEN view_embedded_signature(n, file)
    ELSE verify_signed_image(n, file)

\* What it reports when verify_data raises instead (gpg cannot be run): the
\* exception leaves verify_image_signature (gui.py:120 shows it) and is caught
\* in the other two (signature_viewer.py:116 and 192-194).
VerificationAborted(handler, n, file, profile) ==
    [VerificationOutcome(handler, n, file, profile)
        EXCEPT !.path = "Error",
               !.ret = IF handler = "verify_image_signature" THEN "raise"
                       ELSE IF handler = "verify_signed_image" THEN "False" ELSE "",
               !.err = IF handler = "verify_image_signature" THEN "OSError" ELSE ""]

\* gui.py:111-123 with signature_verifier.py:12-32, and gui.py:130 with
\* signature_viewer.py:42-97: the carrier field is decoded; without a signature
\* the callback reports and returns; with one, the signature is written to a
\* temporary file and verify_data is called.
VerificationStarted(handler, n, profile) ==
    /\ Dispatchable(gui.stack)
    /\ gui.clicks < MaxClicks
    /\ n \in JpegNames /\ folder[n].exists
    /\ LET signature == LoadSignature(folder[n])
           outcome == VerificationOutcome(handler, n, folder[n], profile)
           tmp_sig_filename == gui.clicks + 1
           depth == Len(gui.stack) + 1
       IN  IF ~signature.ok
           THEN /\ gui' = [gui EXCEPT !.clicks = @ + 1]
                /\ last' = outcome
           ELSE /\ gui' = [gui EXCEPT
                              !.clicks = @ + 1,
                              !.tmp_files = @ \cup {tmp_sig_filename},
                              !.calls = @ \cup {GpgCall("verify_data", outcome.data,
                                                        SignatureFile(signature.val), depth)},
                              !.stack = Append(@, [NoFrame EXCEPT !.handler = handler,
                                                                  !.pc = "verify_data",
                                                                  !.profile = profile,
                                                                  !.name = n,
                                                                  !.tmp = tmp_sig_filename])]
                /\ last' = NoOutcome
    /\ UNCHANGED <<folder, clock, issued, signs, edits, codec, store>>

\* Verify Signature, with the profile selected.
VerifyClicked(n, profile) ==
    /\ profile \in GuiProfiles
    /\ VerificationStarted("verify_image_signature", n, profile)

\* View Signature.
ViewClicked(n) == VerificationStarted("view_embedded_signature", n, NoProfile)

\* signature_verifier.py:32-38 and signature_viewer.py:97-117: verify_data
\* returns and the temporary file is unlinked, or verify_data raises and the
\* unlink is not reached.
VerifyDataReturned(raises) ==
    /\ Top(gui.stack).pc = "verify_data"
    /\ LET frame == Top(gui.stack)
           file == folder[frame.name]
           depth == Len(gui.stack)
       IN  /\ last' = IF raises
                      THEN VerificationAborted(frame.handler, frame.name, file, frame.profile)
                      ELSE VerificationOutcome(frame.handler, frame.name, file, frame.profile)
           /\ gui' = [gui EXCEPT !.stack = Pop(@),
                                 !.calls = {c \in @ : c.depth # depth},
                                 !.tmp_files = IF raises THEN @ ELSE @ \ {frame.tmp}]
    /\ UNCHANGED <<folder, clock, issued, signs, edits, codec, store>>

\* signature_viewer.py:197-207: verify_signed_image run from the command
\* line, in a process of its own with a gpg_manager of its own; its
\* temporary file is on the same disk.
VerifySignedImageRun(n, raises) ==
    /\ gui.clicks < MaxClicks
    /\ n \in JpegNames /\ folder[n].exists
    /\ LET signature == LoadSignature(folder[n])
       IN  /\ raises => signature.ok
           /\ last' = IF raises
                      THEN VerificationAborted("verify_signed_image", n, folder[n], NoProfile)
                      ELSE verify_signed_image(n, folder[n])
           /\ gui' = [gui EXCEPT !.clicks = @ + 1,
                                 !.tmp_files = IF raises THEN @ \cup {gui.clicks + 1} ELSE @]
    /\ UNCHANGED <<folder, clock, issued, signs, edits, codec, store>>

GuiInit ==
    /\ \E year \in FileYears, png \in {"none", "RGB"} :
           folder = [n \in Names |->
                        IF n = "a.jpg" THEN InitialJpeg(year, 0)
                        ELSE IF n = "b.png" /\ png # "none" THEN InitialPng(png)
                        ELSE NoFile]
    /\ clock = 2024
    /\ issued = {}
    /\ signs = 0
    /\ edits = 0
    /\ last = NoOutcome
    /\ codec = NoCodec
    /\ gui = NoGui
    /\ store = NoStore

GuiNext ==
    \/ CreateProfileClicked
    \/ \E submitted \in BOOLEAN : ProfileFormClosed(submitted)
    \/ \E p \in GuiProfiles : TagFolderClicked(p)
    \/ SignDataCalled
    \/ \E signer_ok \in BOOLEAN : SignDataReturned(signer_ok)
    \/ TagFolderDone
    \/ \E n \in JpegNames, p \in GuiProfiles : VerifyClicked(n, p)
    \/ \E n \in JpegNames : ViewClicked(n)
    \/ \E raises \in BOOLEAN : VerifyDataReturned(raises)
    \/ \E n \in JpegNames, raises \in BOOLEAN : VerifySignedImageRun(n, raises)

GuiSpec == GuiInit /\ [][GuiNext]_vars

\* C23: at most one call of sign_data or verify_data on gpg_manager is in
\* progress, whatever buttons are pressed and whatever callbacks are open.
C23_OneCallAtATime == Cardinality(gui.calls) <= 1

\* C23 witness: a call is in progress in a callback that was entered while
\* another callback, with the profile form open, had not returned.
C23_Witness ==
    /\ Len(gui.stack) = 2
    /\ gui.stack[1].handler = "prompt_for_profile"
    /\ \E c \in gui.calls : c.depth = 2

\* C24: while sign_data is in progress for a file, the file on disk is the
\* re-encoded RGB image without any attribution or carrier field, and the
\* fingerprint the signer was handed is the one of the pixels on disk; once
\* the fields are written, the pixels on disk are still the ones whose
\* fingerprint was signed.
C24_SaveHashSignEmbed ==
    /\ \A i \in 1..Len(gui.stack) :
           gui.stack[i].pc = "sign_data"
           => LET frame == gui.stack[i]
                  file == folder[frame.name]
                  attribution ==
                      get_attribution_bytes(normalise_strings(frame.profile.author),
                                            normalise_strings(frame.profile.copyright),
                                            normalise_strings(frame.profile.license),
                                            SigningYear(frame.before))
              IN  /\ file.mode = "RGB" /\ file.rgb = JpegSamples(frame.before.rgb)
                  /\ file.usercomment = <<>> /\ file.artist = <<>>
                  /\ file.xpauthor = <<>> /\ file.xpkeywords = <<>>
                  /\ \E c \in gui.calls :
                         /\ c.fn = "sign_data" /\ c.depth = i
                         /\ c.data = Sha256(PixelData(file) \o attribution)
    /\ \A n \in JpegNames :
           folder[n].serial >= 0
           => LET e == Embedded(n)
              IN  /\ folder[n].usercomment = CarrierField(e.sig)
                  /\ folder[n].artist = Utf8Encode(e.author)
                  /\ e.data = Sha256(PixelData(folder[n])
                                     \o get_attribution_bytes(e.author, e.holder,
                                                              e.license, e.year))

\* C24 witness: the first JPEG carries its signature and sign_data is in
\* progress for the second.
C24_Witness ==
    /\ folder["a.jpg"].serial >= 0
    /\ Top(gui.stack).pc = "sign_data"
    /\ Top(gui.stack).name = "b_converted.jpg"

\* C28 (as claimed): a signature issued for one attribution record does not
\* verify for the same pixels with a record that differs from it in the
\* author, the copyright holder, the license or the year.
C28_OtherRecordNeverVerifies ==
    \A e \in issued :
        (/\ IsVerification(last) /\ last.called
         /\ last.sig = e.sig /\ last.pixels = e.pixels
         /\ <<last.author, last.holder, last.license, last.year>>
            # <<e.author, e.holder, e.license, e.year>>)
        => last.ret # "True"

\* C29 (as claimed): a temporary signature file is on disk only while the
\* verification attempt that wrote it is in progress.
C29_TempFilesAreDeleted ==
    \A t \in gui.tmp_files :
        \E i \in 1..Len(gui.stack) :
            gui.stack[i].pc = "verify_data" /\ gui.stack[i].tmp = t

(***************************************************************************)
(* The stored profiles (profile_manager.py): create, edit and delete        *)
(***************************************************************************)

\* The profiles the form can be submitted with: a name and an author, both
\* required (profile_manager.py:84); the other fields play no part here.
Entries == [name : ProfileKeys, author : AuthorTexts]

\* save_profiles(data): the file is replaced by the map it is given.
save_profiles(file, data) == data

StoreStep(profiles, op, entry) ==
    /\ store' = [profiles |-> profiles, op |-> op, saved |-> entry]
    /\ UNCHANGED <<folder, clock, issued, signs, edits, last, codec, gui>>

\* gui.py:89-94: the form is submitted (on_submit saves the profile), then the
\* map is loaded again and the profile stored under its name once more.
CreateProfile(entry) ==
    /\ entry \in Entries
    /\ LET submitted == save_profiles(store.profiles, on_submit(store.profiles, entry))
           profiles == [submitted EXCEPT ![entry.name] = entry]
       IN  StoreStep(save_profiles(submitted, profiles), "create", entry)

\* profile_manager.py:167-176, _edit_profile(profile_key): the map is loaded,
\* the form is opened on the entry and submitted (on_submit loads the map,
\* stores the profile under its name and saves), then the profile is put
\* under profile_key in the map loaded before the form and that map is saved.
EditProfile(profile_key, entry) ==
    /\ profile_key \in ProfileKeys /\ store.profiles[profile_key] # NoEntry
    /\ entry \in Entries
    /\ LET profiles == store.profiles
           submitted == save_profiles(store.profiles, on_submit(store.profiles, entry))
           updated == [profiles EXCEPT ![profile_key] = entry]
       IN  StoreStep(save_profiles(submitted, updated), "edit", entry)

\* profile_manager.py:178-186, _delete_profile(profile_key): the entry is
\* removed when the user confirms.
DeleteProfile(profile_key, confirm) ==
    /\ profile_key \in ProfileKeys /\ store.profiles[profile_key] # NoEntry
    /\ IF confirm
       THEN StoreStep(save_profiles(store.profiles,
                                    [store.profiles EXCEPT ![profile_key] = NoEntry]),
                      "delete", NoEntry)
       ELSE StoreStep(store.profiles, "delete", NoEntry)

ProfileInit ==
    /\ folder = [n \in Names |-> NoFile]
    /\ clock = 2024
    /\ issued = {}
    /\ signs = 0
    /\ edits = 0
    /\ last = NoOutcome
    /\ codec = NoCodec
    /\ gui = NoGui
    /\ store = NoStore

ProfileNext ==
    \/ \E entry \in Entries : CreateProfile(entry)
    \/ \E k \in ProfileKeys, entry \in Entries : EditProfile(k, entry)
    \/ \E k \in ProfileKeys, confirm \in BOOLEAN : DeleteProfile(k, confirm)

ProfileSpec == ProfileInit /\ [][ProfileNext]_vars

\* C30 (as claimed): every entry of the stored map is under the key equal to
\* its name, and after an edit the profile the form saved is in the map under
\* its name.
C30_KeysAreNames ==
    /\ \A k \in ProfileKeys :
           store.profiles[k] # NoEntry => store.profiles[k].name = k
    /\ store.op = "edit" => store.profiles[store.saved.name] = store.saved

====
